---- MODULE Spec2Model ----
(***************************************************************************)
(* Model of install.py, the interactive dotfiles installer.                *)
(*                                                                         *)
(* The script is a straight-line program: platform check, argument         *)
(* dispatch inside a try/except, and two menu flows which read lines from  *)
(* standard input, convert them with int() and run shell command lines     *)
(* through subprocess.call(..., shell=True).  The state is the position    *)
(* in the script (pc), the process inputs (sys.platform, sys.argv), the    *)
(* local variables of the flows, and histories of what the process did:    *)
(* what it printed, which menus it read, which command lines it handed to  *)
(* the shell, which simple commands the shell ran and what it returned.    *)
(*                                                                         *)
(* The flows are only reachable when sys.platform = 'linux', which is the  *)
(* value Python >= 3.3 reports; Python 2 reports 'linux2'.  input() and    *)
(* int() therefore have their Python 3 meaning: input() returns the line   *)
(* as text and raises EOFError at end of input.                            *)
(***************************************************************************)
EXTENDS Integers, Sequences, FiniteSets, TLC

VARIABLES pc, platform, argv, shell, choice, cs, out, reads, calls, ran, rcs,
          exitCode

vars == <<pc, platform, argv, shell, choice, cs, out, reads, calls, ran, rcs,
          exitCode>>

(***************************************************************************)
(* Bounds and input sets.                                                  *)
(***************************************************************************)
\* longest line typed at a menu prompt
MaxLen == 2

\* characters a typed line is made of: digits in and out of the menus'
\* range, a sign, white space and a letter
Alphabet == {"0", "1", "2", "-", " ", "a"}

RECURSIVE SeqsOfLen(_)
SeqsOfLen(n) ==
    IF n = 0 THEN {<<>>}
    ELSE {Append(s, c) : s \in SeqsOfLen(n - 1), c \in Alphabet}

RECURSIVE SeqsUpTo(_)
SeqsUpTo(n) == IF n = 0 THEN {<<>>} ELSE SeqsOfLen(n) \cup SeqsUpTo(n - 1)

Lines == SeqsUpTo(MaxLen)

\* what one input() call can meet on standard input: a line, or end of input
ReadOutcomes ==
    {[eof |-> FALSE, line |-> l] : l \in Lines} \cup {[eof |-> TRUE, line |-> <<>>]}

\* values of sys.platform
Platforms == {"linux", "darwin", "win32", "linux2"}

\* command lines: the script name alone, or followed by one argument
Argvs == {<<"install.py">>} \cup
         {<<"install.py", a>> : a \in {"vim", "shell", "VIM", "shel", ""}}

\* return codes of a shell command
ReturnCodes == {0, 1}

\* exitCode while the process is still running
Running == -1

(***************************************************************************)
(* int(): Python's conversion of text to an integer.                       *)
(***************************************************************************)
Whitespace == {" ", "\t"}
Digits == {"0", "1", "2", "3", "4", "5", "6", "7", "8", "9"}

DigitVal(c) ==
    CASE c = "0" -> 0 [] c = "1" -> 1 [] c = "2" -> 2 [] c = "3" -> 3
      [] c = "4" -> 4 [] c = "5" -> 5 [] c = "6" -> 6 [] c = "7" -> 7
      [] c = "8" -> 8 [] c = "9" -> 9

RECURSIVE LStrip(_)
LStrip(s) ==
    IF s # <<>> /\ Head(s) \in Whitespace THEN LStrip(Tail(s)) ELSE s

RECURSIVE RStrip(_)
RStrip(s) ==
    IF s # <<>> /\ s[Len(s)] \in Whitespace
    THEN RStrip(SubSeq(s, 1, Len(s) - 1)) ELSE s

Strip(s) == LStrip(RStrip(s))

\* digits, with single underscores allowed between two digits
IsDigitString(s) ==
    /\ s # <<>>
    /\ \A i \in 1..Len(s) : s[i] \in Digits \cup {"_"}
    /\ s[1] \in Digits
    /\ s[Len(s)] \in Digits
    /\ \A i \in 1..(Len(s) - 1) : ~(s[i] = "_" /\ s[i + 1] = "_")

RECURSIVE DecimalValue(_)
DecimalValue(s) ==
    IF s = <<>> THEN 0
    ELSE IF s[Len(s)] = "_" THEN DecimalValue(SubSeq(s, 1, Len(s) - 1))
    ELSE 10 * DecimalValue(SubSeq(s, 1, Len(s) - 1)) + DigitVal(s[Len(s)])

\* int(text): ok = FALSE stands for ValueError
int(text) ==
    LET t == Strip(text)
        signed == t # <<>> /\ Head(t) \in {"+", "-"}
        body == IF signed THEN Tail(t) ELSE t
    IN IF IsDigitString(body)
       THEN [ok |-> TRUE,
             val |-> IF signed /\ Head(t) = "-"
                     THEN 0 - DecimalValue(body) ELSE DecimalValue(body)]
       ELSE [ok |-> FALSE, val |-> 0]

(***************************************************************************)
(* Texts printed and command lines run.                                    *)
(***************************************************************************)
MsgStatus == "using linux with python 3"
MsgDarwin == "Install it your self"
MsgOther == "Haha, this is not for windows"
MsgShellMenu == "What shell you use?"
MsgVimMenu == "what do you want to install?"
MsgCsMenu == "Which colorscheme"
MsgChoose == "choose from the given options"
MsgInvalid == "invalid input"
MsgUsage == "usage install.py [...]"

\* a command line is the sequence of simple commands it joins with &&
CmdCpBashrc == <<"cp .bashrc ~/.bashrc">>
CmdSourceBashrc == <<"source ~/.bashrc">>
CmdCpZshrc == <<"cp .zshrc ~/.zshrc">>
CmdCpTheme == <<"cp Disassembler.zsh-theme $ZSH/theme/">>
CmdSourceZshrc == <<"source ~/.zshrc">>
CmdCpVimrc == <<"cp .vimrc ~/.vimrc">>
CmdMkdirColors == "mkdir -p ~/.vim/colors"
CmdTender == <<CmdMkdirColors, "cp vim/colors/tender.vim ~/.vim/colors">>
CmdJellybeans == <<CmdMkdirColors, "cp vim/colors/jellybeans.vim ~/.vim/colors">>

(***************************************************************************)
(* Helpers shared by the steps of the script.                              *)
(***************************************************************************)
\* /bin/sh -c on c1 && ... && cn: the commands run in order up to the first
\* one that fails; the line returns the code of the last command run
ShellRuns(cmdline) ==
    UNION {{[ran |-> SubSeq(cmdline, 1, k), rc |-> r] :
                r \in {x \in ReturnCodes : k < Len(cmdline) => x # 0}} :
           k \in 1..Len(cmdline)}

\* variant: subprocess.check_call, which raises CalledProcessError on a
\* non-zero return code
SubprocessCall_checked(cmdline, from, to) ==
    /\ pc = from
    /\ \E o \in ShellRuns(cmdline) :
          /\ calls' = Append(calls, cmdline)
          /\ ran' = ran \o o.ran
          /\ rcs' = Append(rcs, o.rc)
          /\ pc' = IF o.rc = 0 THEN to ELSE "except"
    /\ UNCHANGED <<platform, argv, shell, choice, cs, out, reads, exitCode>>

\* subprocess.call(cmdline, shell=True) at position from: the return code
\* is dropped and control continues at position to
SubprocessCall(cmdline, from, to) ==
    /\ pc = from
    /\ \E o \in ShellRuns(cmdline) :
          /\ calls' = Append(calls, cmdline)
          /\ ran' = ran \o o.ran
          /\ rcs' = Append(rcs, o.rc)
    /\ pc' = to
    /\ UNCHANGED <<platform, argv, shell, choice, cs, out, reads, exitCode>>

\* sys.exit(code): SystemExit is not an Exception, so the handler of the
\* dispatch does not catch it and the process ends with that code
SysExit(code) ==
    /\ pc' = "exit"
    /\ exitCode' = code

\* an Exception raised inside the try block of the dispatch
Raise == pc' = "except"

(***************************************************************************)
(* Initial state: the process has started, nothing has run yet.            *)
(***************************************************************************)
Init ==
    /\ pc = "platform_check"
    /\ platform \in Platforms
    /\ argv \in Argvs
    /\ shell = {}
    /\ choice = {}
    /\ cs = {}
    /\ out = <<>>
    /\ reads = <<>>
    /\ calls = <<>>
    /\ ran = <<>>
    /\ rcs = <<>>
    /\ exitCode = Running

(***************************************************************************)
(* Module level: platform check and dispatch.                              *)
(***************************************************************************)
\* variant: darwin treated as a supported platform
PlatformCheck_darwinSupported ==
    /\ pc = "platform_check"
    /\ IF platform \in {"linux", "darwin"}
       THEN /\ out' = Append(out, MsgStatus)
            /\ pc' = "dispatch"
            /\ UNCHANGED exitCode
       ELSE /\ out' = Append(out, MsgOther)
            /\ exitCode' = 0
            /\ pc' = "exit"
    /\ UNCHANGED <<platform, argv, shell, choice, cs, reads, calls, ran, rcs>>

PlatformCheck ==
    /\ pc = "platform_check"
    /\ IF platform = "linux"
       THEN /\ out' = Append(out, MsgStatus)
            /\ pc' = "dispatch"
            /\ UNCHANGED exitCode
       ELSE IF platform = "darwin"
       THEN /\ out' = Append(out, MsgDarwin)
            /\ SysExit(0)
       ELSE /\ out' = Append(out, MsgOther)
            /\ SysExit(0)
    /\ UNCHANGED <<platform, argv, shell, choice, cs, reads, calls, ran, rcs>>

\* try: if sys.argv[1] == 'vim' ... elif ... == 'shell' ... else: banner()
Dispatch ==
    /\ pc = "dispatch"
    /\ IF Len(argv) < 2
       THEN Raise /\ UNCHANGED out                     \* IndexError
       ELSE IF argv[2] = "vim"
       THEN pc' = "vim" /\ UNCHANGED out
       ELSE IF argv[2] = "shell"
       THEN pc' = "shell_theme" /\ UNCHANGED out
       ELSE pc' = "end" /\ out' = Append(out, MsgUsage)
    /\ UNCHANGED <<platform, argv, shell, choice, cs, reads, calls, ran, rcs,
                   exitCode>>

\* variant: the handler prints the banner and then calls sys.exit(1)
Handler_exit1 ==
    /\ pc = "except"
    /\ out' = Append(out, MsgUsage)
    /\ pc' = "exit"
    /\ exitCode' = 1
    /\ UNCHANGED <<platform, argv, shell, choice, cs, reads, calls, ran, rcs>>

\* except Exception as e: banner()
Handler ==
    /\ pc = "except"
    /\ out' = Append(out, MsgUsage)
    /\ pc' = "end"
    /\ UNCHANGED <<platform, argv, shell, choice, cs, reads, calls, ran, rcs,
                   exitCode>>

\* the script runs off its end: exit status 0
Finish ==
    /\ pc = "end"
    /\ SysExit(0)
    /\ UNCHANGED <<platform, argv, shell, choice, cs, out, reads, calls, ran,
                   rcs>>

(***************************************************************************)
(* shell_theme()                                                           *)
(***************************************************************************)
\* menu, then try: shell = input('+=> ') except: pass
ShellPrompt ==
    /\ pc = "shell_theme"
    /\ out' = Append(out, MsgShellMenu)
    /\ reads' = Append(reads, "shell")
    /\ \E r \in ReadOutcomes :
          shell' = IF r.eof THEN {} ELSE {r.line}
    /\ pc' = "shell_select"
    /\ UNCHANGED <<platform, argv, choice, cs, calls, ran, rcs, exitCode>>

\* variant: the zsh branch tests int(shell) >= 2
ShellSelect_atLeast2 ==
    /\ pc = "shell_select"
    /\ IF shell = {}
       THEN pc' = "except" /\ UNCHANGED <<out, exitCode>>
       ELSE LET n == int(CHOOSE l \in shell : TRUE)
            IN IF ~n.ok
               THEN pc' = "except" /\ UNCHANGED <<out, exitCode>>
               ELSE IF n.val = 1
               THEN pc' = "cp_bashrc" /\ UNCHANGED <<out, exitCode>>
               ELSE IF n.val >= 2
               THEN pc' = "cp_zshrc" /\ UNCHANGED <<out, exitCode>>
               ELSE out' = Append(out, MsgChoose) /\ pc' = "exit"
                       /\ exitCode' = 1
    /\ UNCHANGED <<platform, argv, shell, choice, cs, reads, calls, ran, rcs>>

\* if int(shell) == 1 ... elif int(shell) == 2 ... else ... sys.exit(1)
ShellSelect ==
    /\ pc = "shell_select"
    /\ IF shell = {}
       THEN Raise /\ UNCHANGED <<out, exitCode>>       \* UnboundLocalError
       ELSE LET n == int(CHOOSE l \in shell : TRUE)
            IN IF ~n.ok
               THEN Raise /\ UNCHANGED <<out, exitCode>>   \* ValueError
               ELSE IF n.val = 1
               THEN pc' = "cp_bashrc" /\ UNCHANGED <<out, exitCode>>
               ELSE IF n.val = 2
               THEN pc' = "cp_zshrc" /\ UNCHANGED <<out, exitCode>>
               ELSE out' = Append(out, MsgChoose) /\ SysExit(1)
    /\ UNCHANGED <<platform, argv, shell, choice, cs, reads, calls, ran, rcs>>

CpBashrc == SubprocessCall(CmdCpBashrc, "cp_bashrc", "source_bashrc")

\* variant: the bash branch falls through into the zsh branch
SourceBashrc_fallthrough ==
    SubprocessCall(CmdSourceBashrc, "source_bashrc", "cp_zshrc")

SourceBashrc == SubprocessCall(CmdSourceBashrc, "source_bashrc", "end")

\* variant: the theme copy is left out of the zsh branch
CpZshrc_noTheme == SubprocessCall(CmdCpZshrc, "cp_zshrc", "source_zshrc")

CpZshrc == SubprocessCall(CmdCpZshrc, "cp_zshrc", "cp_theme")

CpTheme == SubprocessCall(CmdCpTheme, "cp_theme", "source_zshrc")

SourceZshrc == SubprocessCall(CmdSourceZshrc, "source_zshrc", "end")

(***************************************************************************)
(* vim()                                                                   *)
(***************************************************************************)
\* menu, then choice = input('+=> ') with no guard
VimPrompt ==
    /\ pc = "vim"
    /\ out' = Append(out, MsgVimMenu)
    /\ reads' = Append(reads, "vim")
    /\ \E r \in ReadOutcomes :
          IF r.eof
          THEN Raise /\ UNCHANGED choice               \* EOFError
          ELSE pc' = "vim_select" /\ choice' = {r.line}
    /\ UNCHANGED <<platform, argv, shell, cs, calls, ran, rcs, exitCode>>

\* variant: selection 2 creates the colors directory in a command of its own
\* before the sub-menu is shown
VimSelect_mkdirFirst ==
    /\ pc = "vim_select"
    /\ LET n == int(CHOOSE l \in choice : TRUE)
       IN IF ~n.ok
          THEN pc' = "except" /\ UNCHANGED <<out, exitCode, calls, ran, rcs>>
          ELSE IF n.val = 1
          THEN pc' = "cp_vimrc" /\ UNCHANGED <<out, exitCode, calls, ran, rcs>>
          ELSE IF n.val = 2
          THEN /\ pc' = "cs_prompt"
               /\ \E o \in ShellRuns(<<CmdMkdirColors>>) :
                     /\ calls' = Append(calls, <<CmdMkdirColors>>)
                     /\ ran' = ran \o o.ran
                     /\ rcs' = Append(rcs, o.rc)
               /\ UNCHANGED <<out, exitCode>>
          ELSE /\ out' = Append(out, MsgChoose)
               /\ pc' = "exit"
               /\ exitCode' = 1
               /\ UNCHANGED <<calls, ran, rcs>>
    /\ UNCHANGED <<platform, argv, shell, choice, cs, reads>>

\* if int(choice) == 1 ... elif int(choice) == 2: sub-menu ... else exit
VimSelect ==
    /\ pc = "vim_select"
    /\ LET n == int(CHOOSE l \in choice : TRUE)
       IN IF ~n.ok
          THEN Raise /\ UNCHANGED <<out, exitCode>>    \* ValueError
          ELSE IF n.val = 1
          THEN pc' = "cp_vimrc" /\ UNCHANGED <<out, exitCode>>
          ELSE IF n.val = 2
          THEN pc' = "cs_prompt" /\ UNCHANGED <<out, exitCode>>
          ELSE out' = Append(out, MsgChoose) /\ SysExit(1)
    /\ UNCHANGED <<platform, argv, shell, choice, cs, reads, calls, ran, rcs>>

CpVimrc == SubprocessCall(CmdCpVimrc, "cp_vimrc", "end")

\* sub-menu, then cs = input('+=> ')
CsPrompt ==
    /\ pc = "cs_prompt"
    /\ out' = Append(out, MsgCsMenu)
    /\ reads' = Append(reads, "cs")
    /\ \E r \in ReadOutcomes :
          IF r.eof
          THEN Raise /\ UNCHANGED cs                   \* EOFError
          ELSE pc' = "cs_select" /\ cs' = {r.line}
    /\ UNCHANGED <<platform, argv, shell, choice, calls, ran, rcs, exitCode>>

\* variant: the two colorscheme branches exchanged
CsSelect_swapped ==
    /\ pc = "cs_select"
    /\ LET n == int(CHOOSE l \in cs : TRUE)
       IN IF ~n.ok
          THEN pc' = "except" /\ UNCHANGED <<out, exitCode>>
          ELSE IF n.val = 1
          THEN pc' = "install_jellybeans" /\ UNCHANGED <<out, exitCode>>
          ELSE IF n.val = 2
          THEN pc' = "install_tender" /\ UNCHANGED <<out, exitCode>>
          ELSE out' = Append(out, MsgInvalid) /\ pc' = "exit"
                  /\ exitCode' = 1
    /\ UNCHANGED <<platform, argv, shell, choice, cs, reads, calls, ran, rcs>>

\* if int(cs) == 1 ... elif int(cs) == 2 ... else ... sys.exit(1)
CsSelect ==
    /\ pc = "cs_select"
    /\ LET n == int(CHOOSE l \in cs : TRUE)
       IN IF ~n.ok
          THEN Raise /\ UNCHANGED <<out, exitCode>>    \* ValueError
          ELSE IF n.val = 1
          THEN pc' = "install_tender" /\ UNCHANGED <<out, exitCode>>
          ELSE IF n.val = 2
          THEN pc' = "install_jellybeans" /\ UNCHANGED <<out, exitCode>>
          ELSE out' = Append(out, MsgInvalid) /\ SysExit(1)
    /\ UNCHANGED <<platform, argv, shell, choice, cs, reads, calls, ran, rcs>>

InstallTender == SubprocessCall(CmdTender, "install_tender", "end")

InstallJellybeans == SubprocessCall(CmdJellybeans, "install_jellybeans", "end")

(***************************************************************************)
(* Specification.                                                          *)
(***************************************************************************)
Next ==
    \/ PlatformCheck
    \/ Dispatch
    \/ Handler
    \/ Finish
    \/ ShellPrompt
    \/ ShellSelect
    \/ CpBashrc
    \/ SourceBashrc
    \/ CpZshrc
    \/ CpTheme
    \/ SourceZshrc
    \/ VimPrompt
    \/ VimSelect
    \/ CpVimrc
    \/ CsPrompt
    \/ CsSelect
    \/ InstallTender
    \/ InstallJellybeans

Spec == Init /\ [][Next]_vars

TypeOK ==
    /\ pc \in {"platform_check", "dispatch", "except", "end", "exit",
               "shell_theme", "shell_select", "cp_bashrc", "source_bashrc",
               "cp_zshrc", "cp_theme", "source_zshrc", "vim", "vim_select",
               "cp_vimrc", "cs_prompt", "cs_select", "install_tender",
               "install_jellybeans"}
    /\ platform \in Platforms
    /\ argv \in Argvs
    /\ \A v \in {shell, choice, cs} : v \subseteq Lines /\ Cardinality(v) <= 1
    /\ exitCode \in {Running, 0, 1}
    /\ Len(calls) = Len(rcs)
    /\ (pc = "exit") = (exitCode # Running)

(***************************************************************************)
(* Vocabulary of the properties.                                           *)
(***************************************************************************)
InSeq(x, s) == \E i \in 1..Len(s) : s[i] = x

IsPrefix(a, b) == Len(a) <= Len(b) /\ SubSeq(b, 1, Len(a)) = a

Count(x, s) == Cardinality({i \in 1..Len(s) : s[i] = x})

ArgIs(a) == Len(argv) >= 2 /\ argv[2] = a

\* the integer a menu variable holds, when it holds a line int() accepts
Selected(v, n) ==
    /\ v # {}
    /\ LET l == CHOOSE x \in v : TRUE IN int(l).ok /\ int(l).val = n

Numeric(v) == v # {} /\ int(CHOOSE x \in v : TRUE).ok

OutOfRange(v) == Numeric(v) /\ ~Selected(v, 1) /\ ~Selected(v, 2)

\* the simple commands that copy a file
CopyCommands ==
    {CmdCpBashrc[1], CmdCpZshrc[1], CmdCpTheme[1], CmdCpVimrc[1],
     CmdTender[2], CmdJellybeans[2]}

NothingRun == calls = <<>> /\ ran = <<>> /\ rcs = <<>>

Terminated == pc = "exit"

ShellSeq1 == <<CmdCpBashrc, CmdSourceBashrc>>
ShellSeq2 == <<CmdCpZshrc, CmdCpTheme, CmdSourceZshrc>>

(***************************************************************************)
(* C1                                                                      *)
(***************************************************************************)
\* C1: on every platform other than 'linux', whatever the arguments and the
\* input, the process goes from the platform check straight to exit code 0:
\* no menu is read and no command is run.
C1_UnsupportedPlatformExits ==
    platform # "linux" =>
        /\ pc \in {"platform_check", "exit"}
        /\ (Terminated => exitCode = 0)
        /\ reads = <<>>
        /\ NothingRun
        /\ ~InSeq(MsgUsage, out)

C1_Witness ==
    /\ platform = "darwin"
    /\ ArgIs("vim")
    /\ Terminated
    /\ exitCode = 0
    /\ out = <<MsgDarwin>>

(***************************************************************************)
(* C2                                                                      *)
(***************************************************************************)
\* C2: on linux, with a first argument other than "vim" and "shell" or with
\* no argument, the usage banner is printed, no menu is prompted, no command
\* is run and the exit code is 0.
C2_UsageOnOtherArgument ==
    (platform = "linux" /\ ~ArgIs("vim") /\ ~ArgIs("shell")) =>
        /\ pc \in {"platform_check", "dispatch", "except", "end", "exit"}
        /\ (pc \in {"end", "exit"} => Count(MsgUsage, out) = 1)
        /\ (Terminated => exitCode = 0)
        /\ reads = <<>>
        /\ \A m \in {MsgShellMenu, MsgVimMenu, MsgCsMenu} : ~InSeq(m, out)
        /\ NothingRun

C2_Witness ==
    /\ platform = "linux"
    /\ Len(argv) = 1
    /\ Terminated
    /\ exitCode = 0
    /\ out = <<MsgStatus, MsgUsage>>

(***************************************************************************)
(* C3                                                                      *)
(***************************************************************************)
\* C3: an integer outside the listed range typed at the shell menu, the vim
\* menu or the colorscheme sub-menu leads only to exit code 1, and no
\* command has been run at any point of that run.
C3_OutOfRangeExitsOne ==
    /\ OutOfRange(shell) =>
          pc \in {"shell_select", "exit"} /\ (Terminated => exitCode = 1)
             /\ NothingRun
    /\ OutOfRange(choice) =>
          pc \in {"vim_select", "exit"} /\ (Terminated => exitCode = 1)
             /\ NothingRun
    /\ OutOfRange(cs) =>
          pc \in {"cs_select", "exit"} /\ (Terminated => exitCode = 1)
             /\ NothingRun

C3_Witness ==
    /\ Selected(choice, 2)
    /\ OutOfRange(cs)
    /\ Terminated
    /\ exitCode = 1
    /\ NothingRun

(***************************************************************************)
(* C4                                                                      *)
(***************************************************************************)
\* a menu step was given end of input or a line int() rejects
Unparsable(menu, v) == InSeq(menu, reads) /\ ~Numeric(v)

\* C4: input that cannot be parsed as an integer at any menu step of either
\* flow is reported to the user and the process exits with code 1.
C4_UnparsableExitsOne ==
    (Terminated /\ (\/ Unparsable("shell", shell)
                    \/ Unparsable("vim", choice)
                    \/ Unparsable("cs", cs))) =>
        /\ exitCode = 1
        /\ InSeq(MsgChoose, out) \/ InSeq(MsgInvalid, out)

(***************************************************************************)
(* C5                                                                      *)
(***************************************************************************)
\* C5: for "shell" with selection 2 the command lines are issued in the
\* order copy .zshrc, copy theme, source .zshrc: what has been issued is
\* always a prefix of that sequence, all three have been issued when the
\* flow ends, and no bash command is run.
C5_ZshOrder ==
    (ArgIs("shell") /\ Selected(shell, 2)) =>
        /\ IsPrefix(calls, ShellSeq2)
        /\ (pc \in {"end", "exit"} => calls = ShellSeq2)
        /\ IsPrefix(ran, <<CmdCpZshrc[1], CmdCpTheme[1], CmdSourceZshrc[1]>>)
        /\ Len(ran) = Len(calls)
        /\ ~InSeq(CmdCpBashrc[1], ran) /\ ~InSeq(CmdSourceBashrc[1], ran)

C5_Witness ==
    /\ ArgIs("shell")
    /\ Selected(shell, 2)
    /\ Terminated
    /\ calls = ShellSeq2

(***************************************************************************)
(* C6                                                                      *)
(***************************************************************************)
\* C6: for "shell" with selection 1 the bash configuration is copied and
\* then re-sourced, and no other copy is run.
C6_BashOnly ==
    (ArgIs("shell") /\ Selected(shell, 1)) =>
        /\ IsPrefix(calls, ShellSeq1)
        /\ (pc \in {"end", "exit"} => calls = ShellSeq1)
        /\ IsPrefix(ran, <<CmdCpBashrc[1], CmdSourceBashrc[1]>>)
        /\ Len(ran) = Len(calls)
        /\ \A c \in CopyCommands \ {CmdCpBashrc[1]} : ~InSeq(c, ran)

C6_Witness ==
    /\ ArgIs("shell")
    /\ Selected(shell, 1)
    /\ Terminated
    /\ ran = <<CmdCpBashrc[1], CmdSourceBashrc[1]>>

(***************************************************************************)
(* C7                                                                      *)
(***************************************************************************)
\* the run of "vim", selection 2, sub-selection n issues exactly the
\* command line mine, whose copy runs once the directory step succeeded,
\* and never runs the copy of the other colorscheme or of .vimrc
ColorschemeRun(n, mine, other) ==
    (ArgIs("vim") /\ Selected(choice, 2) /\ Selected(cs, n)) =>
        /\ IsPrefix(calls, <<mine>>)
        /\ (pc \in {"end", "exit"} =>
               /\ calls = <<mine>>
               /\ ran \in {<<CmdMkdirColors>>, mine}
               /\ (rcs[1] = 0 => ran = mine))
        /\ ~InSeq(other[2], ran)
        /\ ~InSeq(CmdCpVimrc[1], ran)

\* C7: for "vim" with selection 2 the colorscheme copied is the one the
\* sub-selection names: 2 copies jellybeans and never tender, 1 copies
\* tender and never jellybeans, and .vimrc is copied in neither case.
C7_ChosenColorscheme ==
    /\ ColorschemeRun(1, CmdTender, CmdJellybeans)
    /\ ColorschemeRun(2, CmdJellybeans, CmdTender)

C7_Witness ==
    /\ ArgIs("vim")
    /\ Selected(choice, 2)
    /\ Selected(cs, 2)
    /\ Terminated
    /\ ran = CmdJellybeans

(***************************************************************************)
(* C8                                                                      *)
(***************************************************************************)
\* the command lines of the branch a valid selection leads to
ValidBranch ==
    IF ArgIs("shell") /\ Selected(shell, 1) THEN {ShellSeq1}
    ELSE IF ArgIs("shell") /\ Selected(shell, 2) THEN {ShellSeq2}
    ELSE IF ArgIs("vim") /\ Selected(choice, 1) THEN {<<CmdCpVimrc>>}
    ELSE IF ArgIs("vim") /\ Selected(choice, 2) /\ Selected(cs, 1)
    THEN {<<CmdTender>>}
    ELSE IF ArgIs("vim") /\ Selected(choice, 2) /\ Selected(cs, 2)
    THEN {<<CmdJellybeans>>}
    ELSE {}

\* C8: once a flow has a valid selection the process can only exit with
\* code 0, whatever each command returned: every command line of the branch
\* is issued whether or not the ones before it failed, no exception is
\* raised, and the exit code is never 1.
C8_ResultsIgnored ==
    \A branch \in ValidBranch :
        /\ IsPrefix(calls, branch)
        /\ (pc \in {"end", "exit"} => calls = branch)
        /\ pc # "except"
        /\ ~InSeq(MsgUsage, out)
        /\ exitCode \in {Running, 0}
        /\ (Terminated => exitCode = 0)

C8_Witness ==
    /\ ArgIs("shell")
    /\ Selected(shell, 2)
    /\ Terminated
    /\ exitCode = 0
    /\ calls = ShellSeq2
    /\ rcs = <<1, 1, 1>>

(***************************************************************************)
(* C9                                                                      *)
(***************************************************************************)
\* C9 as stated: the colors directory has been ensured (mkdir -p has run)
\* in every state in which the colorscheme sub-menu has been presented.
C9_DirectoryBeforeSubMenu ==
    InSeq(MsgCsMenu, out) => InSeq(CmdMkdirColors, ran)

\* C9 as amended: the directory step runs only after a valid sub-selection,
\* as the first part of the command line that copies the chosen
\* colorscheme.  While the sub-menu is presented and read nothing has run; a
\* run that ends with exit code 1 never runs it; a run with a valid
\* sub-selection runs it before the copy.
C9_DirectoryWithCopy ==
    /\ (InSeq(MsgCsMenu, out) /\ pc \in {"cs_select", "except"}) => NothingRun
    /\ exitCode = 1 => ~InSeq(CmdMkdirColors, ran)
    /\ InSeq(CmdMkdirColors, ran) =>
          /\ Selected(cs, 1) \/ Selected(cs, 2)
          /\ ran[1] = CmdMkdirColors
          /\ Count(CmdMkdirColors, ran) = 1
    /\ \A i \in 1..Len(ran) :
          ran[i] \in {CmdTender[2], CmdJellybeans[2]} =>
              i > 1 /\ ran[i - 1] = CmdMkdirColors
    /\ (pc \in {"end", "exit"} /\ (Selected(cs, 1) \/ Selected(cs, 2))) =>
          InSeq(CmdMkdirColors, ran)

C9_Witness ==
    /\ InSeq(MsgCsMenu, out)
    /\ Selected(cs, 1)
    /\ Terminated
    /\ ran = CmdTender

(***************************************************************************)
(* C10                                                                     *)
(***************************************************************************)
ShellFlowEntered == InSeq(MsgShellMenu, out)
VimFlowEntered == InSeq(MsgVimMenu, out)

\* C10: a run takes exactly one of the shell flow, the vim flow and the
\* usage banner: a run that entered a flow never prints the usage banner,
\* each menu is prompted at most once, and a failure inside a flow ends the
\* process at once with exit code 1.
C10_OneBranchPerRun ==
    /\ ~(ShellFlowEntered /\ VimFlowEntered)
    /\ (ShellFlowEntered \/ VimFlowEntered) => ~InSeq(MsgUsage, out)
    /\ \A m \in {"shell", "vim", "cs"} : Count(m, reads) <= 1
    /\ (ShellFlowEntered \/ VimFlowEntered) => pc # "except"

====
